---- MODULE Spec2Model ----
(***************************************************************************)
(* A model of the retail billing application (src/App.tsx): the App        *)
(* component's state (customers, invoices, settings, isLoading), the       *)
(* InvoiceForm component's state while it is mounted, the browser's       *)
(* localStorage behind src/services/storageService.ts, the wall clock read *)
(* by new Date(), and one action per handler of App and of InvoiceForm.    *)
(*                                                                         *)
(* JavaScript values.  A JS number is a tagged record: Num(v) holds a      *)
(* fixed-point value of v/Scale, NaN is the not-a-number value, and Null   *)
(* is JSON's null (what JSON.stringify writes for NaN).  Arithmetic and    *)
(* comparison follow the JS operators on these (NaN propagates and is      *)
(* unequal to itself, null converts to 0), and a result is rounded to      *)
(* Precision significant bits, to nearest and ties to even, as a double    *)
(* rounds to 53.  Strings that the code formats or trims                   *)
(* (invoice ids, the invoice prefix) are sequences of one-character        *)
(* strings; other strings are TLA+ strings.  ISO timestamps are clock      *)
(* ticks.                                                                  *)
(***************************************************************************)
EXTENDS Integers, Sequences, FiniteSets, TLC

VARIABLES
    customers,     \* App state: Customer[]                       (App.tsx:160)
    invoices,      \* App state: Invoice[]                        (App.tsx:161)
    settings,      \* App state: AppSettings                      (App.tsx:162)
    isLoading,     \* App state: true until the load effect ran   (App.tsx:163)
    rendered,      \* what the committed render closed over: the four above
    notification,  \* the notification added last                 (App.tsx:164)
    storage,       \* localStorage: key -> <<>> (absent) or <<document>>, and failing
    now,           \* the wall clock, in ticks (new Date())
    year,          \* the calendar year of the wall clock (getFullYear())
    last,          \* history: the handler called last and what it returned
    issued,        \* history: the ids issued by addInvoice, in order (SpecSteady only)
    invoiceForm    \* the state of InvoiceForm while it is mounted   (App.tsx:537-544)

vars == <<customers, invoices, settings, isLoading, rendered, notification, storage, now, year,
          last, issued, invoiceForm>>

---------------------------------------------------------------------------
(* Bounds of the model. *)

MaxCustomers == 2
MaxInvoices == 2
MaxCounter == 4
MaxTime == 1
MaxYears == 1
BaseYear == 2024
Precision == 17
MaxFormItems == 2
MaxFormInvoices == 1
MaxFormCustomers == 1
MaxStorageCounter == 2

---------------------------------------------------------------------------
(* JavaScript numbers. *)

\* The denominator of the fixed-point numbers: a number n is kept as n * Scale,
\* so Scale is a multiple of 10 for the tenths of the tax rates to be exact.
Scale == 10

Num(v) == [t |-> "number", v |-> v]
NaN == [t |-> "NaN", v |-> 0]
Null == [t |-> "null", v |-> 0]

\* A whole number n, and n tenths, in fixed point.
Whole(n) == Num(n * Scale)
Tenths(n) == Num((n * Scale) \div 10)

IsNaN(a) == a.t = "NaN"

\* ToNumber: null converts to 0.
ToNumber(a) == IF a.t = "null" THEN Num(0) ELSE a

\* The spacing of the representable values around a magnitude m.
RECURSIVE Ulp(_)
Ulp(m) == IF m < 2 ^ Precision THEN 1 ELSE 2 * Ulp(m \div 2)

\* Rounding of an exact result to Precision significant bits: to the nearest
\* representable value, a tie to the one with an even significand.
RoundMagnitude(m) ==
    LET ulp == Ulp(m)
        q == m \div ulp
        r == m % ulp
    IN  IF 2 * r > ulp \/ (2 * r = ulp /\ q % 2 = 1) THEN (q + 1) * ulp ELSE q * ulp
Round(v) == IF v < 0 THEN 0 - RoundMagnitude(0 - v) ELSE RoundMagnitude(v)

\* a * b
JsMul(a, b) ==
    IF IsNaN(a) \/ IsNaN(b) THEN NaN
    ELSE Num(Round((ToNumber(a).v * ToNumber(b).v) \div Scale))

\* a + b (on numbers and null)
JsAdd(a, b) ==
    IF IsNaN(a) \/ IsNaN(b) THEN NaN
    ELSE Num(Round(ToNumber(a).v + ToNumber(b).v))

\* a < b: false when either side is NaN.
JsLt(a, b) == ~IsNaN(a) /\ ~IsNaN(b) /\ ToNumber(a).v < ToNumber(b).v

\* a === b: NaN is not equal to itself; null equals only null.
StrictEq(a, b) == ~IsNaN(a) /\ ~IsNaN(b) /\ a = b

\* !a on a number or null: 0, NaN and null are falsy.
Falsy(a) == a.t # "number" \/ a.v = 0

\* a || b
JsOr(a, b) == IF Falsy(a) THEN b ELSE a

---------------------------------------------------------------------------
(* Strings as sequences of characters. *)

Digit(d) == CASE d = 0 -> "0" [] d = 1 -> "1" [] d = 2 -> "2" [] d = 3 -> "3"
              [] d = 4 -> "4" [] d = 5 -> "5" [] d = 6 -> "6" [] d = 7 -> "7"
              [] d = 8 -> "8" [] d = 9 -> "9"

RECURSIVE NatToString(_)
NatToString(n) ==
    IF n < 10 THEN <<Digit(n)>> ELSE NatToString(n \div 10) \o <<Digit(n % 10)>>

\* Number.prototype.toString() of a whole number.
NumToString(a) == NatToString(a.v \div Scale)

\* Mutant: the padded string is cut to targetLength (as slice(-targetLength) does).
RECURSIVE padStartCut(_, _, _)
padStartCut(s, targetLength, padChar) ==
    IF Len(s) > targetLength THEN SubSeq(s, Len(s) - targetLength + 1, Len(s))
    ELSE IF Len(s) = targetLength THEN s
    ELSE padStartCut(<<padChar>> \o s, targetLength, padChar)

\* String.prototype.padStart(targetLength, padChar)
RECURSIVE padStart(_, _, _)
padStart(s, targetLength, padChar) ==
    IF Len(s) >= targetLength THEN s ELSE padStart(<<padChar>> \o s, targetLength, padChar)

\* String.prototype.trim()
RECURSIVE TrimLeft(_)
TrimLeft(s) == IF s # <<>> /\ Head(s) = " " THEN TrimLeft(Tail(s)) ELSE s

RECURSIVE TrimRight(_)
TrimRight(s) ==
    IF s # <<>> /\ s[Len(s)] = " " THEN TrimRight(SubSeq(s, 1, Len(s) - 1)) ELSE s

Trim(s) == TrimRight(TrimLeft(s))

\* The decimal digits of a string, read as a number.
DigitValue(ch) == CHOOSE d \in 0..9 : Digit(d) = ch
RECURSIVE StringToNat(_)
StringToNat(s) ==
    IF s = <<>> THEN 0 ELSE 10 * StringToNat(SubSeq(s, 1, Len(s) - 1)) + DigitValue(s[Len(s)])
IsDecimal(s) == \A i \in DOMAIN s : \E d \in 0..9 : Digit(d) = s[i]

\* The number of decimal digits s starts with.
RECURSIVE LeadingDigits(_)
LeadingDigits(s) ==
    IF s # <<>> /\ IsDecimal(<<Head(s)>>) THEN 1 + LeadingDigits(Tail(s)) ELSE 0

\* parseFloat(text): leading blanks are skipped and the longest prefix that is a
\* decimal literal (sign, digits, '.', digits) is converted; NaN when there is
\* none. The value keeps one fractional digit (fixed point); exponents are not
\* modelled.
parseFloat(text) ==
    LET s == TrimLeft(text)
        negative == s # <<>> /\ Head(s) = "-"
        body == IF negative THEN Tail(s) ELSE s
        n == LeadingDigits(body)
        afterInt == SubSeq(body, n + 1, Len(body))
        fraction == IF afterInt # <<>> /\ Head(afterInt) = "." THEN Tail(afterInt) ELSE <<>>
        m == LeadingDigits(fraction)
        magnitude == StringToNat(SubSeq(body, 1, n)) * Scale
                         + (IF m = 0 THEN 0 ELSE (DigitValue(fraction[1]) * Scale) \div 10)
    IN  IF n = 0 /\ m = 0 THEN NaN
        ELSE Num(IF negative THEN 0 - magnitude ELSE magnitude)

\* Mutant: the fractional digit is kept, as parseFloat keeps it.
parseIntKeepingFraction(text) == parseFloat(text)

\* parseInt(text, 10): leading blanks are skipped and the longest prefix that is a
\* sign and decimal digits is converted; NaN when there are no digits.
parseInt(text) ==
    LET s == TrimLeft(text)
        negative == s # <<>> /\ Head(s) = "-"
        body == IF negative THEN Tail(s) ELSE s
        n == LeadingDigits(body)
        magnitude == StringToNat(SubSeq(body, 1, n)) * Scale
    IN  IF n = 0 THEN NaN
        ELSE Num(IF negative THEN 0 - magnitude ELSE magnitude)

Range(s) == {s[i] : i \in DOMAIN s}

---------------------------------------------------------------------------
(* Program constants and the values the handlers are called with. *)

DEFAULT_SETTINGS ==
    [invoicePrefix |-> <<"I", "N", "V", "-">>,
     nextInvoiceNumber |-> Whole(1),
     defaultTaxRate |-> Whole(0)]

Statuses == {"Draft", "Sent", "Paid", "Overdue"}

\* What generateId() may return: Math.random() gives no guarantee of freshness.
IdSpace == {"c1", "c2"}

Widget ==
    [id |-> "i1", description |-> "Widget", quantity |-> Whole(3),
     unitPrice |-> Whole(10), total |-> Whole(30)]

Gadget ==
    [id |-> "i2", description |-> "Gadget", quantity |-> Whole(1),
     unitPrice |-> Whole(5), total |-> Whole(5)]

\* customerData as CustomerForm.handleSubmit passes it (optional fields left out).
CustomerData(names) == {[name |-> n, phone |-> "555-1111"] : n \in names}

\* An updateCustomer argument: a customer of the list as edited by the form
\* ({ ...customer, ...customerData }), or a record whose id is any id at all.
CustomerUpdates(names) ==
    {[name |-> n] @@ c : c \in Range(customers), n \in names}
        \cup {[id |-> id, name |-> n, phone |-> "555-1111", createdAt |-> 0,
               updatedAt |-> 0] : id \in IdSpace, n \in names}

\* invoiceData of addInvoice: the fields InvoiceForm.handleSubmit passes, and the
\* same with a status field, which the type omits but a caller can pass.
InvoiceData(rates, passed) ==
    LET fields == {[customerId |-> c, invoiceDate |-> 0, dueDate |-> 30,
                    taxRate |-> r, notes |-> ""] : c \in IdSpace, r \in rates}
    IN  fields \cup {[status |-> s] @@ d : d \in fields, s \in passed}

\* An invoice that is not in the collection (deleted since the form was opened).
StaleInvoice ==
    [id |-> <<"X">>, customerId |-> "c1", customerName |-> "Acme", invoiceDate |-> 0,
     dueDate |-> 30, items |-> <<Widget>>, subTotal |-> Whole(30),
     taxRate |-> Tenths(1), taxAmount |-> Whole(3), totalAmount |-> Whole(33),
     notes |-> "", status |-> "Draft", createdAt |-> 0, updatedAt |-> 0]

\* updatedInvoiceData of updateInvoice: { ...invoiceToEdit, customerId, invoiceDate,
\* dueDate, taxRate, notes, status } (App.tsx:585-586).
UpdateData(rates, statuses) ==
    {[customerId |-> c, invoiceDate |-> 0, dueDate |-> 30, taxRate |-> r,
      notes |-> "", status |-> s] @@ inv :
        inv \in Range(invoices) \cup {StaleInvoice}, c \in IdSpace, r \in rates,
        s \in statuses}

InvoiceIds == {invoices[i].id : i \in DOMAIN invoices} \cup {StaleInvoice.id}

\* currentSettings of the settings form: parseInt and parseFloat give NaN for an
\* empty field (App.tsx:879-880).
SettingsInputs(prefixes, rates) ==
    [invoicePrefix : prefixes,
     nextInvoiceNumber : {NaN} \cup {Whole(n) : n \in 0..MaxCounter},
     defaultTaxRate : rates]

Undefined == [t |-> "undefined", v |-> <<>>]
NullRet == [t |-> "null", v |-> <<>>]
Str(s) == [t |-> "string", v |-> s]

NoNotification == [message |-> "", type |-> "", id |-> <<>>]

\* InvoiceForm is not mounted.
NoForm ==
    [open |-> FALSE, invoiceToEdit |-> <<>>, customerId |-> "", invoiceDate |-> 0,
     dueDate |-> 0, items |-> <<>>, taxRate |-> Num(0), notes |-> "", status |-> "Draft"]
Notify(message, type, id) == [message |-> message, type |-> type, id |-> id]

---------------------------------------------------------------------------
(* Persistence: src/services/storageService.ts over localStorage. *)

NumberFields ==
    {"quantity", "unitPrice", "total", "subTotal", "taxRate", "taxAmount",
     "totalAmount", "nextInvoiceNumber", "defaultTaxRate"}

\* JSON.parse(JSON.stringify(x)) of a number: NaN is written as null.
JsonNumber(a) == IF IsNaN(a) THEN Null ELSE a

\* ... of a flat object.
JsonObject(o) ==
    [f \in DOMAIN o |-> IF f \in NumberFields THEN JsonNumber(o[f]) ELSE o[f]]

\* ... of an invoice, with its items.
JsonInvoice(inv) ==
    [f \in DOMAIN inv |->
        IF f = "items" THEN [i \in DOMAIN inv.items |-> JsonObject(inv.items[i])]
        ELSE IF f \in NumberFields THEN JsonNumber(inv[f])
        ELSE inv[f]]

JsonCustomers(cs) == [i \in DOMAIN cs |-> JsonObject(cs[i])]
JsonInvoices(invs) == [i \in DOMAIN invs |-> JsonInvoice(invs[i])]

\* What is stored under a key: <<>> (absent), <<document>>, or Unparsable, which
\* JSON.parse throws on.
Unparsable == <<"{", "{">>

\* failing: whether the calls of localStorage throw (storage full or denied).
EmptyStorage == [customers |-> <<>>, invoices |-> <<>>, settings |-> <<>>, failing |-> FALSE]

\* Mutant: a throw of localStorage.getItem is not noticed.
getItemUnnoticed(st, key, defaultValue) ==
    IF Len(st[key]) = 2 THEN defaultValue
    ELSE IF st[key] = <<>> THEN defaultValue
    ELSE st[key][1]

\* getItem: the parsed document; defaultValue when the key is absent, and when
\* localStorage.getItem or JSON.parse throws (the catch block).
getItem(st, key, defaultValue) ==
    IF st.failing \/ Len(st[key]) = 2 THEN defaultValue
    ELSE IF st[key] = <<>> THEN defaultValue
    ELSE st[key][1]

\* setItem: a throw of localStorage.setItem is caught and nothing is written.
setItem(st, key, json) == IF st.failing THEN st ELSE [st EXCEPT ![key] = <<json>>]

saveCustomers(st, cs) == setItem(st, "customers", JsonCustomers(cs))
saveInvoices(st, invs) == setItem(st, "invoices", JsonInvoices(invs))

\* Mutant: the effect that saves the settings is missing.
saveSettingsOmitted(st, s) == st

saveSettings(st, s) == setItem(st, "settings", JsonObject(s))

---------------------------------------------------------------------------
(* The App component: state, effects and handlers (src/App.tsx). *)

\* The callbacks of a render read the state that render closed over (rendered);
\* a functional update (prev => ...) reads the state itself.
\* Array.prototype.find gives an option: <<>> when nothing matches, else <<first match>>.

\* Mutant: the test assigns instead of comparing (c.id = customerId), so the first
\* customer always matches.
findCustomerByIdAssigning(customerId) ==
    IF rendered.customers = <<>> THEN <<>> ELSE <<rendered.customers[1]>>

findCustomerById(customerId) ==
    LET hits == SelectSeq(rendered.customers, LAMBDA c : c.id = customerId)
    IN  IF hits = <<>> THEN <<>> ELSE <<hits[1]>>

\* Mutant: the same slip in the invoice lookup (inv.id = updatedInvoiceData.id).
findInvoiceByIdAssigning(invoiceId) ==
    IF rendered.invoices = <<>> THEN <<>> ELSE <<rendered.invoices[1]>>

findInvoiceById(invoiceId) ==
    LET hits == SelectSeq(rendered.invoices, LAMBDA inv : inv.id = invoiceId)
    IN  IF hits = <<>> THEN <<>> ELSE <<hits[1]>>

\* items.reduce((sum, item) => sum + item.total, 0)
RECURSIVE Reduce(_, _)
Reduce(items, sum) ==
    IF items = <<>> THEN sum ELSE Reduce(Tail(items), JsAdd(sum, Head(items).total))

\* Mutant: the tax is left out of totalAmount.
calculateInvoiceTotalsUntaxed(items, taxRate) ==
    LET subTotal == Reduce(items, Num(0))
        taxAmount == JsMul(subTotal, taxRate)
    IN  [subTotal |-> subTotal, taxAmount |-> taxAmount, totalAmount |-> subTotal]

calculateInvoiceTotals(items, taxRate) ==
    LET subTotal == Reduce(items, Num(0))
        taxAmount == JsMul(subTotal, taxRate)
        totalAmount == JsAdd(subTotal, taxAmount)
    IN  [subTotal |-> subTotal, taxAmount |-> taxAmount, totalAmount |-> totalAmount]

\* Mutant: the number is taken from the size of the collection.
getNextInvoiceIdFromCount ==
    rendered.settings.invoicePrefix \o NatToString(year) \o <<"-">>
        \o padStart(NatToString(Len(rendered.invoices) + 1), 4, "0")

getNextInvoiceId ==
    LET currentYear == year
        invoiceNumberStr ==
            padStart(NumToString(rendered.settings.nextInvoiceNumber), 4, "0")
    IN  rendered.settings.invoicePrefix \o NatToString(currentYear) \o <<"-">> \o invoiceNumberStr

\* Mutant: only the first invoice is looked at.
hasInvoicesFirstOnly(customerId) ==
    rendered.invoices # <<>> /\ rendered.invoices[1].customerId = customerId

\* Mutant: the name stored on the invoice is compared with the id.
hasInvoicesByName(customerId) ==
    \E i \in DOMAIN rendered.invoices : rendered.invoices[i].customerName = customerId

\* invoices.some(inv => inv.customerId === customerId)
hasInvoices(customerId) ==
    \E i \in DOMAIN rendered.invoices : rendered.invoices[i].customerId = customerId

\* Mutant: the spread of invoiceData comes last, so a status it carries wins.
newInvoiceSpreadLast(invoiceData, items, customer) ==
    invoiceData @@
        ([id |-> getNextInvoiceId,
          customerName |-> customer.name,
          items |-> items,
          status |-> "Draft",
          createdAt |-> now,
          updatedAt |-> now] @@ calculateInvoiceTotals(items, invoiceData.taxRate))

\* The object literal newInvoice of addInvoice: later properties override the spread.
newInvoice(invoiceData, items, customer) ==
    ([id |-> getNextInvoiceId,
      customerName |-> customer.name,
      items |-> items,
      status |-> "Draft",
      createdAt |-> now,
      updatedAt |-> now] @@ calculateInvoiceTotals(items, invoiceData.taxRate))
        @@ invoiceData

\* Mutant: the spread of updatedInvoiceData comes last, so the customerName the
\* form took from the stored invoice wins.
updatedInvoiceSpreadLast(updatedInvoiceData, items, customer, originalInvoice) ==
    updatedInvoiceData @@
        ([customerName |-> customer.name,
          items |-> items,
          updatedAt |-> now,
          createdAt |-> originalInvoice.createdAt]
            @@ calculateInvoiceTotals(items, updatedInvoiceData.taxRate))

\* Mutant: createdAt is stamped anew.
updatedInvoiceRestamped(updatedInvoiceData, items, customer, originalInvoice) ==
    ([customerName |-> customer.name,
      items |-> items,
      updatedAt |-> now,
      createdAt |-> now]
        @@ calculateInvoiceTotals(items, updatedInvoiceData.taxRate))
        @@ updatedInvoiceData

\* Mutant: the stored status is kept.
updatedInvoiceKeepingStatus(updatedInvoiceData, items, customer, originalInvoice) ==
    ([customerName |-> customer.name,
      items |-> items,
      status |-> originalInvoice.status,
      updatedAt |-> now,
      createdAt |-> originalInvoice.createdAt]
        @@ calculateInvoiceTotals(items, updatedInvoiceData.taxRate))
        @@ updatedInvoiceData

\* The object literal updatedInvoice of updateInvoice.
updatedInvoice(updatedInvoiceData, items, customer, originalInvoice) ==
    ([customerName |-> customer.name,
      items |-> items,
      updatedAt |-> now,
      createdAt |-> originalInvoice.createdAt]
        @@ calculateInvoiceTotals(items, updatedInvoiceData.taxRate))
        @@ updatedInvoiceData

\* Mutant: the counter is written back as it was read.
incrementNextInvoiceNumberOmitted(s) ==
    [s EXCEPT !.nextInvoiceNumber = s.nextInvoiceNumber]

\* s => ({ ...s, nextInvoiceNumber: s.nextInvoiceNumber + 1 })
incrementNextInvoiceNumber(s) ==
    [s EXCEPT !.nextInvoiceNumber = JsAdd(s.nextInvoiceNumber, Whole(1))]

Called(op, ret) == last' = [op |-> op, ret |-> ret]

\* The state a render closes over.
Snapshot(cs, invs, s, loading) ==
    [customers |-> cs, invoices |-> invs, settings |-> s, isLoading |-> loading]

\* The render that follows a handler's state updates.
Rerender == rendered' = Snapshot(customers', invoices', settings', isLoading')

Init ==
    /\ customers = <<>>
    /\ invoices = <<>>
    /\ settings = DEFAULT_SETTINGS
    /\ isLoading = TRUE
    /\ rendered = Snapshot(<<>>, <<>>, DEFAULT_SETTINGS, TRUE)
    /\ notification = NoNotification
    /\ storage = EmptyStorage
    /\ now = 0
    /\ year = BaseYear
    /\ last = [op |-> "mount", ret |-> Undefined]
    /\ issued = <<>>
    /\ invoiceForm = NoForm

\* The mount effect (load from storage) and, on the render it causes, the three
\* save effects, which now see isLoading = false.
Load ==
    /\ isLoading
    /\ customers' = getItem(storage, "customers", <<>>)
    /\ invoices' = getItem(storage, "invoices", <<>>)
    /\ settings' = getItem(storage, "settings", DEFAULT_SETTINGS)
    /\ isLoading' = FALSE
    /\ storage' = saveSettings(saveInvoices(saveCustomers(storage, customers'), invoices'),
                               settings')
    /\ Called("load", Undefined)
    /\ UNCHANGED <<notification, now, year, issued, invoiceForm>>
    /\ Rerender

\* Mutant: the customers are saved whatever isLoading is.
saveCustomersEffectUnguarded(st, render) == saveCustomers(st, render.customers)

\* The three save effects (App.tsx:185-187), each run with what its render closed
\* over.
saveCustomersEffect(st, render) ==
    IF ~render.isLoading THEN saveCustomers(st, render.customers) ELSE st
saveInvoicesEffect(st, render) ==
    IF ~render.isLoading THEN saveInvoices(st, render.invoices) ELSE st
saveSettingsEffect(st, render) ==
    IF ~render.isLoading THEN saveSettings(st, render.settings) ELSE st

\* The effects of the first render, in the order of their declaration: the load
\* effect sets the state, which the next render will show, and the save effects
\* run with the values of the first render.
MountEffects ==
    /\ isLoading
    /\ rendered.isLoading
    /\ customers' = getItem(storage, "customers", <<>>)
    /\ invoices' = getItem(storage, "invoices", <<>>)
    /\ settings' = getItem(storage, "settings", DEFAULT_SETTINGS)
    /\ isLoading' = FALSE
    /\ storage' = saveSettingsEffect(
                      saveInvoicesEffect(saveCustomersEffect(storage, rendered), rendered),
                      rendered)
    /\ Called("load", Undefined)
    /\ UNCHANGED <<rendered, notification, now, year, issued, invoiceForm>>

\* The render the state updates caused, and after it the save effects of which a
\* dependency changed.
Commit ==
    LET render == Snapshot(customers, invoices, settings, isLoading)
        loaded == render.isLoading # rendered.isLoading
        c == IF loaded \/ render.customers # rendered.customers
             THEN saveCustomersEffect(storage, render) ELSE storage
        i == IF loaded \/ render.invoices # rendered.invoices
             THEN saveInvoicesEffect(c, render) ELSE c
    IN  /\ rendered # render
        /\ rendered' = render
        /\ storage' = IF loaded \/ render.settings # rendered.settings
                      THEN saveSettingsEffect(i, render) ELSE i
        /\ UNCHANGED <<customers, invoices, settings, isLoading, notification, now, year, last,
                       issued, invoiceForm>>

\* The page is loaded again: App mounts with its initial state; localStorage stays.
Reload ==
    /\ ~isLoading
    /\ customers' = <<>>
    /\ invoices' = <<>>
    /\ settings' = DEFAULT_SETTINGS
    /\ isLoading' = TRUE
    /\ Rerender
    /\ notification' = NoNotification
    /\ invoiceForm' = NoForm
    /\ Called("mount", Undefined)
    /\ UNCHANGED <<storage, now, year, issued>>

\* Mutant: an invoice whose due date has passed becomes Overdue by itself.
TickMarkingOverdue ==
    /\ now < MaxTime
    /\ now' = now + 1
    /\ year' \in {y \in {year, year + 1} : y <= BaseYear + MaxYears}
    /\ invoices' = [i \in DOMAIN invoices |->
                        IF invoices[i].dueDate < now'
                        THEN [invoices[i] EXCEPT !.status = "Overdue"]
                        ELSE invoices[i]]
    /\ UNCHANGED <<customers, settings, isLoading, notification, storage, last, issued,
                   invoiceForm>>
    /\ Rerender

\* Time passes; the year may roll over.
Tick ==
    /\ now < MaxTime
    /\ now' = now + 1
    /\ year' \in {y \in {year, year + 1} : y <= BaseYear + MaxYears}
    /\ UNCHANGED <<customers, invoices, settings, isLoading, rendered, notification, storage, last,
                   issued, invoiceForm>>

addCustomer(customerData) ==
    /\ ~isLoading
    /\ \E id \in IdSpace :
        LET newCustomer == [id |-> id, createdAt |-> now, updatedAt |-> now] @@ customerData
        IN  customers' = Append(customers, newCustomer)
    /\ notification' = Notify("Customer added successfully", "success", <<>>)
    /\ storage' = saveCustomers(storage, customers')
    /\ Called("addCustomer", Undefined)
    /\ UNCHANGED <<invoices, settings, isLoading, now, year, issued, invoiceForm>>
    /\ Rerender

updateCustomer(updatedCustomer) ==
    /\ ~isLoading
    /\ customers' = [i \in DOMAIN customers |->
                        IF customers[i].id = updatedCustomer.id
                        THEN [updatedAt |-> now] @@ updatedCustomer
                        ELSE customers[i]]
    /\ notification' = Notify("Customer updated successfully", "success", <<>>)
    /\ storage' = saveCustomers(storage, customers')
    /\ Called("updateCustomer", Undefined)
    /\ UNCHANGED <<invoices, settings, isLoading, now, year, issued, invoiceForm>>
    /\ Rerender

deleteCustomer(customerId) ==
    /\ ~isLoading
    /\ IF hasInvoices(customerId)
       THEN /\ notification' =
                   Notify("Cannot delete customer with existing invoices.", "error", <<>>)
            /\ UNCHANGED <<customers, storage>>
       ELSE /\ customers' = SelectSeq(customers, LAMBDA c : c.id # customerId)
            /\ notification' = Notify("Customer deleted successfully", "success", <<>>)
            /\ storage' = saveCustomers(storage, customers')
    /\ Called("deleteCustomer", Undefined)
    /\ UNCHANGED <<invoices, settings, isLoading, now, year, issued, invoiceForm>>
    /\ Rerender

\* addInvoice leaves the history variable issued to the specification, and it
\* and updateInvoice leave invoiceForm to their caller.
addInvoice(invoiceData, items) ==
    LET customer == findCustomerById(invoiceData.customerId) IN
    /\ ~isLoading
    /\ IF customer = <<>>
       THEN /\ notification' = Notify("Customer not found for invoice.", "error", <<>>)
            /\ Called("addInvoice", NullRet)
            /\ UNCHANGED <<invoices, settings, storage>>
       ELSE LET new == newInvoice(invoiceData, items, customer[1])
            IN  /\ invoices' = Append(invoices, new)
                /\ settings' = incrementNextInvoiceNumber(settings)
                /\ notification' = Notify("Invoice created successfully", "success", new.id)
                /\ storage' = saveSettings(saveInvoices(storage, invoices'), settings')
                /\ Called("addInvoice", Str(new.id))
    /\ UNCHANGED <<customers, isLoading, now, year>>
    /\ Rerender

updateInvoice(updatedInvoiceData, items) ==
    LET customer == findCustomerById(updatedInvoiceData.customerId)
        originalInvoice == findInvoiceById(updatedInvoiceData.id)
    IN
    /\ ~isLoading
    /\ IF customer = <<>>
       THEN /\ notification' = Notify("Customer not found for invoice.", "error", <<>>)
            /\ UNCHANGED <<invoices, storage>>
       ELSE IF originalInvoice = <<>>
       THEN /\ notification' =
                   Notify("Original invoice not found for update.", "error", <<>>)
            /\ UNCHANGED <<invoices, storage>>
       ELSE LET updated == updatedInvoice(updatedInvoiceData, items, customer[1],
                                          originalInvoice[1])
            IN  /\ invoices' = [i \in DOMAIN invoices |->
                                   IF invoices[i].id = updated.id
                                   THEN updated
                                   ELSE invoices[i]]
                /\ notification' = Notify("Invoice updated successfully", "success",
                                          updated.id)
                /\ storage' = saveInvoices(storage, invoices')
    /\ Called("updateInvoice", Undefined)
    /\ UNCHANGED <<customers, settings, isLoading, now, year, issued>>
    /\ Rerender

\* Mutant: the filter keeps the matching invoices instead of the others.
deleteInvoiceKeepingMatch(invoiceId) ==
    /\ ~isLoading
    /\ invoices' = SelectSeq(invoices, LAMBDA inv : inv.id = invoiceId)
    /\ notification' = Notify("Invoice deleted successfully", "success", invoiceId)
    /\ storage' = saveInvoices(storage, invoices')
    /\ Called("deleteInvoice", Undefined)
    /\ UNCHANGED <<customers, settings, isLoading, now, year, issued, invoiceForm>>
    /\ Rerender

deleteInvoice(invoiceId) ==
    /\ ~isLoading
    /\ invoices' = SelectSeq(invoices, LAMBDA inv : inv.id # invoiceId)
    /\ notification' = Notify("Invoice deleted successfully", "success", invoiceId)
    /\ storage' = saveInvoices(storage, invoices')
    /\ Called("deleteInvoice", Undefined)
    /\ UNCHANGED <<customers, settings, isLoading, now, year, issued, invoiceForm>>
    /\ Rerender

\* SettingsPage.handleInputChange: currentSettings after the field called name was
\* given the text value.
handleInputChange(currentSettings, name, value) ==
    LET numValue == IF name = "nextInvoiceNumber" THEN parseInt(value)
                    ELSE IF name = "defaultTaxRate" THEN parseFloat(value)
                    ELSE value
    IN  [currentSettings EXCEPT ![name] = IF name = "invoicePrefix" THEN value ELSE numValue]

\* Mutant: the counter is compared with 0 instead of 1.
validateSettingsFromZero(currentSettings) ==
    /\ Trim(currentSettings.invoicePrefix) # <<>>
    /\ ~(IsNaN(currentSettings.nextInvoiceNumber)
         \/ JsLt(currentSettings.nextInvoiceNumber, Whole(0)))
    /\ ~(IsNaN(currentSettings.defaultTaxRate)
         \/ JsLt(currentSettings.defaultTaxRate, Whole(0))
         \/ JsLt(Whole(1), currentSettings.defaultTaxRate))

\* SettingsPage.validateSettings on the form's currentSettings.
validateSettings(currentSettings) ==
    /\ Trim(currentSettings.invoicePrefix) # <<>>
    /\ ~(IsNaN(currentSettings.nextInvoiceNumber)
         \/ JsLt(currentSettings.nextInvoiceNumber, Whole(1)))
    /\ ~(IsNaN(currentSettings.defaultTaxRate)
         \/ JsLt(currentSettings.defaultTaxRate, Whole(0))
         \/ JsLt(Whole(1), currentSettings.defaultTaxRate))

\* SettingsPage.handleSaveSettings
handleSaveSettings(currentSettings) ==
    /\ ~isLoading
    /\ IF ~validateSettings(currentSettings)
       THEN /\ notification' =
                   Notify("Please correct the errors in settings.", "error", <<>>)
            /\ UNCHANGED <<settings, storage>>
       ELSE /\ settings' = currentSettings
            /\ notification' = Notify("Settings saved successfully!", "success", <<>>)
            /\ storage' = saveSettings(storage, settings')
    /\ Called("saveSettings", Undefined)
    /\ UNCHANGED <<customers, invoices, isLoading, now, year, issued, invoiceForm>>
    /\ Rerender

\* InvoiceForm: the initial values of its useState calls. invoiceToEdit is <<>>
\* for a new invoice. Dates are day numbers and the date fields are always filled.
InvoiceFormState(invoiceToEdit) ==
    IF invoiceToEdit = <<>>
    THEN [customerId |-> IF customers # <<>> THEN customers[1].id ELSE "",
          invoiceDate |-> 0,
          dueDate |-> 30,
          taxRate |-> settings.defaultTaxRate,
          notes |-> "",
          status |-> "Draft"]
    ELSE [customerId |-> invoiceToEdit[1].customerId,
          invoiceDate |-> invoiceToEdit[1].invoiceDate,
          dueDate |-> invoiceToEdit[1].dueDate,
          taxRate |-> JsOr(invoiceToEdit[1].taxRate, settings.defaultTaxRate),
          notes |-> invoiceToEdit[1].notes,
          status |-> invoiceToEdit[1].status]

\* Descriptions that String.prototype.trim() leaves empty.
BlankDescriptions == {"", " "}

\* Mutant: the total is not recomputed after the change.
handleItemChangeStaleTotal(items, index, field, value) ==
    LET parsed == parseFloat(value)
        parsedValue == IF field \in {"quantity", "unitPrice"}
                       THEN IF IsNaN(parsed) THEN Whole(0) ELSE parsed
                       ELSE value
    IN  [items EXCEPT ![index] = [items[index] EXCEPT ![field] = parsedValue]]

\* InvoiceForm.handleItemChange: value is the text of the input (a description is
\* taken as it is); the result is the new items state.
handleItemChange(items, index, field, value) ==
    LET parsed == parseFloat(value)
        parsedValue == IF field \in {"quantity", "unitPrice"}
                       THEN IF IsNaN(parsed) THEN Whole(0) ELSE parsed
                       ELSE value
        changed == [items[index] EXCEPT ![field] = parsedValue]
        total == JsMul(JsOr(changed.quantity, Whole(0)), JsOr(changed.unitPrice, Whole(0)))
    IN  [items EXCEPT ![index] = [changed EXCEPT !.total = total]]

\* The item InvoiceForm starts with and addItem appends.
BlankItem(id) ==
    [id |-> id, description |-> "", quantity |-> Whole(1), unitPrice |-> Whole(0),
     total |-> Whole(0)]
addItem(items, id) == Append(items, BlankItem(id))
removeItem(items, index) ==
    SubSeq(items, 1, index - 1) \o SubSeq(items, index + 1, Len(items))

\* Mutant: the description is tested without trim().
validateFormUntrimmed(form, items) ==
    /\ form.customerId # ""
    /\ ~(form.dueDate < form.invoiceDate)
    /\ ~\E i \in DOMAIN items :
           \/ items[i].description = ""
           \/ ~IsNaN(items[i].quantity) /\ ~JsLt(Whole(0), items[i].quantity)
           \/ JsLt(items[i].unitPrice, Whole(0))
    /\ ~(JsLt(form.taxRate, Whole(0)) \/ JsLt(Whole(1), form.taxRate))

\* InvoiceForm.validateForm on the form's state: true when no error is recorded.
validateForm(form, items) ==
    /\ form.customerId # ""
    /\ ~(form.dueDate < form.invoiceDate)
    /\ ~\E i \in DOMAIN items :
           \/ items[i].description \in BlankDescriptions
           \/ ~IsNaN(items[i].quantity) /\ ~JsLt(Whole(0), items[i].quantity)
           \/ JsLt(items[i].unitPrice, Whole(0))
    /\ ~(JsLt(form.taxRate, Whole(0)) \/ JsLt(Whole(1), form.taxRate))

\* InvoiceForm.handleSubmit: the form is validated, then handed to updateInvoice
\* (onUpdate) when an invoice is being edited and to addInvoice (onSave) otherwise.
handleSubmit(form, items, invoiceToEdit) ==
    IF ~validateForm(form, items)
    THEN /\ ~isLoading
         /\ notification' = Notify("Please correct the errors in the form.", "error", <<>>)
         /\ Called("handleSubmit", Undefined)
         /\ UNCHANGED <<customers, invoices, settings, isLoading, rendered, storage, now, year>>
    ELSE IF invoiceToEdit # <<>>
         THEN updateInvoice([customerId |-> form.customerId,
                             invoiceDate |-> form.invoiceDate,
                             dueDate |-> form.dueDate,
                             taxRate |-> form.taxRate,
                             notes |-> form.notes,
                             status |-> form.status] @@ invoiceToEdit[1], items)
         ELSE addInvoice([customerId |-> form.customerId,
                          invoiceDate |-> form.invoiceDate,
                          dueDate |-> form.dueDate,
                          taxRate |-> form.taxRate,
                          notes |-> form.notes], items)

---------------------------------------------------------------------------
(* The specifications. *)

\* The guards that bound the model.
RoomForCustomer == Len(customers) < MaxCustomers
RoomForInvoice(invoiceData) ==
    findCustomerById(invoiceData.customerId) # <<>> =>
        /\ Len(invoices) < MaxInvoices
        /\ JsLt(settings.nextInvoiceNumber, Whole(MaxCounter))

\* Spec: one session on a fresh store, with the clock standing still.
SpecNames == {"Acme"}
SpecRates == {Tenths(1)}
SpecItems == {<<Widget>>}
SpecInvoiceData == InvoiceData(SpecRates, {"Paid"})
SpecUpdateData == UpdateData(SpecRates, Statuses)
SpecSettings == SettingsInputs({<<"I", "N", "V", "-">>, <<" ">>}, {Whole(0), NaN})

AddCustomer ==
    \E customerData \in CustomerData(SpecNames) :
        RoomForCustomer /\ addCustomer(customerData)
UpdateCustomer ==
    \E updatedCustomer \in CustomerUpdates(SpecNames) : updateCustomer(updatedCustomer)
DeleteCustomer == \E customerId \in IdSpace : deleteCustomer(customerId)
AddInvoice ==
    \E invoiceData \in SpecInvoiceData, items \in SpecItems :
        /\ RoomForInvoice(invoiceData)
        /\ addInvoice(invoiceData, items)
        /\ UNCHANGED <<issued, invoiceForm>>
UpdateInvoice ==
    \E updatedInvoiceData \in SpecUpdateData, items \in SpecItems :
        updateInvoice(updatedInvoiceData, items) /\ UNCHANGED invoiceForm
DeleteInvoice == \E invoiceId \in InvoiceIds : deleteInvoice(invoiceId)
SaveSettings ==
    \E currentSettings \in SpecSettings : handleSaveSettings(currentSettings)

Next ==
    \/ Load
    \/ AddCustomer
    \/ UpdateCustomer
    \/ DeleteCustomer
    \/ AddInvoice
    \/ UpdateInvoice
    \/ DeleteInvoice
    \/ SaveSettings

Spec == Init /\ [][Next]_vars

\* SpecSteady: sessions, one after the other, in which a settings-save keeps the
\* invoice prefix and the counter and the year stays the same. issued records the
\* counter each successful addInvoice used and the id it returned.
SteadySettings ==
    {currentSettings \in SettingsInputs({settings.invoicePrefix}, {Whole(0), Tenths(1)}) :
        currentSettings.nextInvoiceNumber = settings.nextInvoiceNumber}
SteadyTick ==
    /\ now < MaxTime
    /\ now' = now + 1
    /\ UNCHANGED <<customers, invoices, settings, isLoading, rendered, notification, storage, year,
                   last, issued, invoiceForm>>
SteadyAddInvoice ==
    \E invoiceData \in InvoiceData(SpecRates, {}), items \in SpecItems :
        /\ RoomForInvoice(invoiceData)
        /\ addInvoice(invoiceData, items)
        /\ issued' = IF last'.ret.t = "string"
                     THEN Append(issued, [n |-> settings.nextInvoiceNumber,
                                          id |-> last'.ret.v])
                     ELSE issued
        /\ UNCHANGED invoiceForm
SteadySaveSettings ==
    \E currentSettings \in SteadySettings : handleSaveSettings(currentSettings)

NextSteady ==
    \/ Load
    \/ Reload
    \/ SteadyTick
    \/ AddCustomer
    \/ DeleteCustomer
    \/ SteadyAddInvoice
    \/ DeleteInvoice
    \/ SteadySaveSettings

SpecSteady == Init /\ [][NextSteady]_vars

\* SpecClock: one session in which the clock advances and the counter can be set
\* back, so that two stored invoices can carry the same id.
ClockInvoiceData == InvoiceData(SpecRates, {})
ClockUpdateData == UpdateData(SpecRates, {"Sent"})
ClockSettings == SettingsInputs({<<"I", "N", "V", "-">>}, {Whole(0)})
ClockAddInvoice ==
    \E invoiceData \in ClockInvoiceData, items \in SpecItems :
        /\ RoomForInvoice(invoiceData)
        /\ addInvoice(invoiceData, items)
        /\ UNCHANGED <<issued, invoiceForm>>
ClockUpdateInvoice ==
    \E updatedInvoiceData \in ClockUpdateData, items \in SpecItems :
        updateInvoice(updatedInvoiceData, items) /\ UNCHANGED invoiceForm
ClockSaveSettings ==
    \E currentSettings \in ClockSettings : handleSaveSettings(currentSettings)

NextClock ==
    \/ Load
    \/ Tick
    \/ AddCustomer
    \/ ClockAddInvoice
    \/ ClockUpdateInvoice
    \/ ClockSaveSettings

SpecClock == Init /\ [][NextClock]_vars

\* SpecSettingsForm: the settings page is opened on the stored settings, fields
\* are typed into and the form is saved, between creations of invoices.
PrefixTexts == {<<"A">>, <<" ">>, <<>>}
CounterTexts == {<<"2">>, <<"0">>, <<>>, <<"1", ".", "5">>, <<"-", "1">>}
DefaultRateTexts == {<<"0", ".", "5">>, <<"2">>, <<>>, <<"-", "1">>}

\* currentSettings: the stored settings (App.tsx:869, 872-874) after any of the
\* three fields was typed into.
EditedSettings ==
    LET prefixed == {settings} \cup
            {handleInputChange(settings, "invoicePrefix", value) : value \in PrefixTexts}
        numbered == prefixed \cup
            {handleInputChange(currentSettings, "nextInvoiceNumber", value) :
                currentSettings \in prefixed, value \in CounterTexts}
    IN  numbered \cup
            {handleInputChange(currentSettings, "defaultTaxRate", value) :
                currentSettings \in numbered, value \in DefaultRateTexts}

SettingsFormAddCustomer ==
    \E customerData \in CustomerData(SpecNames) :
        Len(customers) < MaxFormCustomers /\ addCustomer(customerData)
SettingsFormAddInvoice ==
    \E invoiceData \in InvoiceData({settings.defaultTaxRate}, {}), items \in SpecItems :
        /\ RoomForInvoice(invoiceData)
        /\ addInvoice(invoiceData, items)
        /\ UNCHANGED <<issued, invoiceForm>>
SettingsFormSave ==
    \E currentSettings \in EditedSettings : handleSaveSettings(currentSettings)

NextSettingsForm ==
    \/ Load
    \/ SettingsFormAddCustomer
    \/ SettingsFormAddInvoice
    \/ DeleteInvoice
    \/ SettingsFormSave

SpecSettingsForm == Init /\ [][NextSettingsForm]_vars

\* SpecForm: invoices are created and edited through InvoiceForm, and the page is
\* loaded again between sessions. The user picks a customer of the list, types a
\* tax rate (parseFloat of the field: a fraction, an out-of-range number, or NaN
\* for a cleared field), picks a due date (30 days ahead, or the day before the
\* invoice date) and fills the items, some of them with a cleared quantity, a
\* negative price or a blank description.
TaxRateTexts == {<<"0", ".", "1">>, <<"2">>, <<>>}
FormRates == {parseFloat(text) : text \in TaxRateTexts}
FormDueDates == {30, 0 - 1}
FormItems ==
    {<<Widget>>, <<Widget, Gadget>>}
        \cup {<<BlankItem("i1")>>,
              handleItemChange(<<Widget>>, 1, "quantity", <<>>),
              handleItemChange(<<Widget>>, 1, "unitPrice", <<"-", "1">>),
              handleItemChange(<<Widget, Gadget>>, 2, "description", " ")}
FormCustomerIds == {customers[i].id : i \in DOMAIN customers}
FormStates(invoiceToEdit) ==
    {[InvoiceFormState(invoiceToEdit) EXCEPT !.customerId = c, !.taxRate = r, !.dueDate = d] :
        c \in FormCustomerIds \cup {InvoiceFormState(invoiceToEdit).customerId},
        r \in FormRates \cup {InvoiceFormState(invoiceToEdit).taxRate},
        d \in FormDueDates \cup {InvoiceFormState(invoiceToEdit).dueDate}}
SubmitNew ==
    \E form \in FormStates(<<>>), items \in FormItems :
        /\ validateForm(form, items) => RoomForInvoice(form)
        /\ handleSubmit(form, items, <<>>)
        /\ UNCHANGED <<issued, invoiceForm>>
SubmitEdit ==
    \E i \in DOMAIN invoices :
        \E form \in FormStates(<<invoices[i]>>), items \in FormItems :
            /\ handleSubmit(form, items, <<invoices[i]>>)
            /\ UNCHANGED <<issued, invoiceForm>>

NextForm ==
    \/ Load
    \/ Reload
    \/ AddCustomer
    \/ SubmitNew
    \/ SubmitEdit

SpecForm == Init /\ [][NextForm]_vars

\* SpecNumbering: one session in which the settings page sets the counter to
\* small and large numbers and changes the prefix, and the year can roll over.
NumberingCounters == {1, 42, 9999, 10000}
NumberingSettings ==
    [invoicePrefix : {<<"I", "N", "V", "-">>, <<"B">>},
     nextInvoiceNumber : {Whole(n) : n \in NumberingCounters},
     defaultTaxRate : {Whole(0)}]
NumberingAddInvoice ==
    \E invoiceData \in InvoiceData(SpecRates, {}), items \in SpecItems :
        /\ Len(invoices) < MaxInvoices
        /\ settings.nextInvoiceNumber \in {Whole(n) : n \in NumberingCounters}
        /\ addInvoice(invoiceData, items)
        /\ UNCHANGED <<issued, invoiceForm>>
NumberingSaveSettings ==
    \E currentSettings \in NumberingSettings : handleSaveSettings(currentSettings)

NextNumbering ==
    \/ Load
    \/ Tick
    \/ AddCustomer
    \/ NumberingAddInvoice
    \/ NumberingSaveSettings

SpecNumbering == Init /\ [][NextNumbering]_vars

\* SpecTotals: one session in which invoices are created from the same three
\* items in every order: one large line total and two small ones, so that the
\* sum of the large one and a small one is not representable.
Bulk ==
    [id |-> "i3", description |-> "Bulk", quantity |-> Whole(1),
     unitPrice |-> Num(2 ^ Precision), total |-> Num(2 ^ Precision)]
Dime ==
    [id |-> "i4", description |-> "Dime", quantity |-> Whole(1),
     unitPrice |-> Num(1), total |-> Num(1)]
Nickel ==
    [id |-> "i5", description |-> "Nickel", quantity |-> Whole(1),
     unitPrice |-> Num(1), total |-> Num(1)]
TotalsItems ==
    {<<>>, <<Widget, Gadget>>, <<Gadget, Widget>>}
        \cup {<<Bulk, Dime, Nickel>>, <<Bulk, Nickel, Dime>>, <<Dime, Bulk, Nickel>>,
              <<Dime, Nickel, Bulk>>, <<Nickel, Bulk, Dime>>, <<Nickel, Dime, Bulk>>}
TotalsAddInvoice ==
    \E invoiceData \in InvoiceData(SpecRates, {}), items \in TotalsItems :
        /\ RoomForInvoice(invoiceData)
        /\ addInvoice(invoiceData, items)
        /\ UNCHANGED <<issued, invoiceForm>>

NextTotals ==
    \/ Load
    \/ AddCustomer
    \/ TotalsAddInvoice
    \/ DeleteInvoice

SpecTotals == Init /\ [][NextTotals]_vars

\* SpecItemForm: one session in which the new-invoice form is opened, its items
\* are edited field by field, items are added and removed, and the form is
\* submitted. The texts are what the inputs deliver: a number, nothing (the field
\* was cleared), a negative number; a description, or blanks.
ItemIdSpace == {"i1"}
NumberTexts == {<<"3">>, <<>>, <<"-", "1">>}
DescriptionTexts == {"Widget", " "}
OpenInvoiceForm ==
    /\ ~isLoading
    /\ ~invoiceForm.open
    /\ Len(invoices) < MaxFormInvoices
    /\ \E id \in ItemIdSpace :
           invoiceForm' = [open |-> TRUE, invoiceToEdit |-> <<>>, items |-> <<BlankItem(id)>>]
                              @@ InvoiceFormState(<<>>)
    /\ Called("InvoiceForm", Undefined)
    /\ UNCHANGED <<customers, invoices, settings, isLoading, rendered, notification, storage, now,
                   year, issued>>
ItemChange ==
    /\ invoiceForm.open
    /\ \E index \in DOMAIN invoiceForm.items :
           \/ \E field \in {"quantity", "unitPrice"}, value \in NumberTexts :
                  invoiceForm' = [invoiceForm EXCEPT
                                     !.items = handleItemChange(@, index, field, value)]
           \/ \E value \in DescriptionTexts :
                  invoiceForm' = [invoiceForm EXCEPT
                                     !.items = handleItemChange(@, index, "description", value)]
    /\ Called("handleItemChange", Undefined)
    /\ UNCHANGED <<customers, invoices, settings, isLoading, rendered, notification, storage, now,
                   year, issued>>
AddItem ==
    /\ invoiceForm.open
    /\ Len(invoiceForm.items) < MaxFormItems
    /\ \E id \in ItemIdSpace : invoiceForm' = [invoiceForm EXCEPT !.items = addItem(@, id)]
    /\ Called("addItem", Undefined)
    /\ UNCHANGED <<customers, invoices, settings, isLoading, rendered, notification, storage, now,
                   year, issued>>
\* Mutant: the remove button is shown on the only item too.
RemoveItemUnguarded ==
    /\ invoiceForm.open
    /\ \E index \in DOMAIN invoiceForm.items :
           invoiceForm' = [invoiceForm EXCEPT !.items = removeItem(@, index)]
    /\ Called("removeItem", Undefined)
    /\ UNCHANGED <<customers, invoices, settings, isLoading, rendered, notification, storage, now,
                   year, issued>>

RemoveItem ==
    /\ invoiceForm.open
    /\ Len(invoiceForm.items) > 1
    /\ \E index \in DOMAIN invoiceForm.items :
           invoiceForm' = [invoiceForm EXCEPT !.items = removeItem(@, index)]
    /\ Called("removeItem", Undefined)
    /\ UNCHANGED <<customers, invoices, settings, isLoading, rendered, notification, storage, now,
                   year, issued>>
SubmitForm ==
    /\ invoiceForm.open
    /\ handleSubmit(invoiceForm, invoiceForm.items, invoiceForm.invoiceToEdit)
    /\ invoiceForm' = IF last'.op = "addInvoice" /\ last'.ret.t = "string"
                      THEN NoForm
                      ELSE invoiceForm
    /\ UNCHANGED issued
ItemFormAddCustomer ==
    /\ ~invoiceForm.open
    /\ Len(customers) < MaxFormCustomers
    /\ AddCustomer

NextItemForm ==
    \/ Load
    \/ ItemFormAddCustomer
    \/ OpenInvoiceForm
    \/ ItemChange
    \/ AddItem
    \/ RemoveItem
    \/ SubmitForm

SpecItemForm == Init /\ [][NextItemForm]_vars

\* SpecCustomers: one session with two customer names, in which customers are
\* added, renamed and deleted, invoices are created and updated, and the clock
\* advances.
CustomersNames == {"Acme", "Bolt"}
CustomersUpdateData == UpdateData(SpecRates, {"Sent"})
CustomersAddCustomer ==
    \E customerData \in CustomerData(CustomersNames) :
        RoomForCustomer /\ addCustomer(customerData)
CustomersUpdateCustomer ==
    \E updatedCustomer \in CustomerUpdates(CustomersNames) : updateCustomer(updatedCustomer)
CustomersAddInvoice ==
    \E invoiceData \in InvoiceData(SpecRates, {}), items \in SpecItems :
        /\ RoomForInvoice(invoiceData)
        /\ addInvoice(invoiceData, items)
        /\ UNCHANGED <<issued, invoiceForm>>
CustomersUpdateInvoice ==
    \E updatedInvoiceData \in CustomersUpdateData, items \in SpecItems :
        updateInvoice(updatedInvoiceData, items) /\ UNCHANGED invoiceForm

NextCustomers ==
    \/ Load
    \/ Tick
    \/ CustomersAddCustomer
    \/ CustomersUpdateCustomer
    \/ DeleteCustomer
    \/ CustomersAddInvoice
    \/ CustomersUpdateInvoice

SpecCustomers == Init /\ [][NextCustomers]_vars

\* SpecStorage: sessions, one after the other, during which localStorage starts
\* and stops throwing (quota reached, access denied) and a stored document is
\* damaged from outside the program.
StorageKeys == {"customers", "invoices", "settings"}
StorageFrame ==
    UNCHANGED <<customers, invoices, settings, isLoading, rendered, notification, now, year,
                last, issued, invoiceForm>>
StorageFails ==
    /\ ~storage.failing
    /\ storage' = [storage EXCEPT !.failing = TRUE]
    /\ StorageFrame
StorageRecovers ==
    /\ storage.failing
    /\ storage' = [storage EXCEPT !.failing = FALSE]
    /\ StorageFrame
StorageDamaged ==
    /\ \E key \in StorageKeys :
        /\ Len(storage[key]) = 1
        /\ storage' = [storage EXCEPT ![key] = Unparsable]
    /\ StorageFrame
StorageSettings == SettingsInputs({<<"A">>}, {Whole(0)})
StorageAddCustomer ==
    \E customerData \in CustomerData(SpecNames) :
        Len(customers) < MaxFormCustomers /\ addCustomer(customerData)
StorageAddInvoice ==
    \E invoiceData \in InvoiceData(SpecRates, {}), items \in SpecItems :
        /\ findCustomerById(invoiceData.customerId) # <<>> =>
              /\ Len(invoices) < MaxFormInvoices
              /\ JsLt(settings.nextInvoiceNumber, Whole(MaxStorageCounter))
        /\ addInvoice(invoiceData, items)
        /\ UNCHANGED <<issued, invoiceForm>>
StorageSaveSettings ==
    \E currentSettings \in StorageSettings :
        /\ JsLt(currentSettings.nextInvoiceNumber, Whole(MaxStorageCounter))
        /\ handleSaveSettings(currentSettings)

NextStorage ==
    \/ Load
    \/ Reload
    \/ StorageFails
    \/ StorageRecovers
    \/ StorageDamaged
    \/ StorageAddCustomer
    \/ DeleteCustomer
    \/ StorageAddInvoice
    \/ DeleteInvoice
    \/ StorageSaveSettings

SpecStorage == Init /\ [][NextStorage]_vars

\* SpecStatus: invoices that are due on the day they are created, so that the
\* clock passes their due date, among every other operation.
StatusInvoiceData ==
    {[invoiceData EXCEPT !.dueDate = 0] : invoiceData \in InvoiceData(SpecRates, {})}
StatusUpdateData ==
    {[updatedInvoiceData EXCEPT !.dueDate = 0] :
        updatedInvoiceData \in UpdateData(SpecRates, {"Sent", "Overdue"})}
StatusSettings == SettingsInputs({<<"I", "N", "V", "-">>}, {Whole(0)})
StatusAddCustomer ==
    \E customerData \in CustomerData(SpecNames) :
        Len(customers) < MaxFormCustomers /\ addCustomer(customerData)
StatusAddInvoice ==
    \E invoiceData \in StatusInvoiceData, items \in SpecItems :
        /\ RoomForInvoice(invoiceData)
        /\ addInvoice(invoiceData, items)
        /\ UNCHANGED <<issued, invoiceForm>>
StatusUpdateInvoice ==
    \E updatedInvoiceData \in StatusUpdateData, items \in SpecItems :
        updateInvoice(updatedInvoiceData, items) /\ UNCHANGED invoiceForm
StatusSaveSettings ==
    \E currentSettings \in StatusSettings : handleSaveSettings(currentSettings)

NextStatus ==
    \/ Load
    \/ Tick
    \/ StatusAddCustomer
    \/ UpdateCustomer
    \/ DeleteCustomer
    \/ StatusAddInvoice
    \/ StatusUpdateInvoice
    \/ DeleteInvoice
    \/ StatusSaveSettings

SpecStatus == Init /\ [][NextStatus]_vars

\* SpecItemList: the form is opened for a new invoice and on stored invoices, items
\* are added to it, changed and removed, and it is submitted.
OpenInvoiceFormToEdit ==
    /\ ~isLoading
    /\ ~invoiceForm.open
    /\ \E i \in DOMAIN invoices :
           invoiceForm' = [open |-> TRUE, invoiceToEdit |-> <<invoices[i]>>,
                           items |-> invoices[i].items]
                              @@ InvoiceFormState(<<invoices[i]>>)
    /\ Called("InvoiceForm", Undefined)
    /\ UNCHANGED <<customers, invoices, settings, isLoading, rendered, notification, storage, now,
                   year, issued>>

\* handleSubmit and the navigation that unmounts the form: after onUpdate in any
\* case, after onSave when it returned an id.
SubmitItemList ==
    /\ invoiceForm.open
    /\ handleSubmit(invoiceForm, invoiceForm.items, invoiceForm.invoiceToEdit)
    /\ invoiceForm' = IF \/ last'.op = "updateInvoice"
                         \/ last'.op = "addInvoice" /\ last'.ret.t = "string"
                      THEN NoForm
                      ELSE invoiceForm
    /\ UNCHANGED issued

NextItemList ==
    \/ Load
    \/ ItemFormAddCustomer
    \/ OpenInvoiceForm
    \/ OpenInvoiceFormToEdit
    \/ ItemChange
    \/ AddItem
    \/ RemoveItem
    \/ SubmitItemList

SpecItemList == Init /\ [][NextItemList]_vars

\* SpecStartup: the mount taken effect by effect and render by render, over
\* sessions that leave documents in the storage, with the page loaded again at any
\* moment and the storage failing at times.
Settled == rendered = Snapshot(customers, invoices, settings, isLoading)
StartupAddCustomer == Settled /\ StorageAddCustomer
StartupAddInvoice == Settled /\ StorageAddInvoice
StartupSaveSettings == Settled /\ StorageSaveSettings
StartupDeleteInvoice == Settled /\ DeleteInvoice

NextStartup ==
    \/ MountEffects
    \/ Commit
    \/ Reload
    \/ StorageFails
    \/ StorageRecovers
    \/ StartupAddCustomer
    \/ StartupAddInvoice
    \/ StartupDeleteInvoice
    \/ StartupSaveSettings

SpecStartup == Init /\ [][NextStartup]_vars

\* SpecResubmit: invoices are created through the form at the default tax rate or
\* at a rate typed in, the default rate is changed on the settings page,
\* customers are renamed, time passes, and stored invoices are opened in the form
\* and submitted as the form shows them.
ResubmitRates == {Whole(0), Tenths(1)}
ResubmitSettings ==
    {currentSettings \in SettingsInputs({settings.invoicePrefix}, ResubmitRates) :
        currentSettings.nextInvoiceNumber = settings.nextInvoiceNumber}
ResubmitAddCustomer ==
    \E customerData \in CustomerData(CustomersNames) :
        Len(customers) < MaxFormCustomers /\ addCustomer(customerData)
ResubmitNew ==
    \E form \in {[InvoiceFormState(<<>>) EXCEPT !.taxRate = r] : r \in ResubmitRates},
       items \in SpecItems :
        /\ RoomForInvoice(form)
        /\ handleSubmit(form, items, <<>>)
        /\ UNCHANGED <<issued, invoiceForm>>
ResubmitSaveSettings ==
    \E currentSettings \in ResubmitSettings : handleSaveSettings(currentSettings)

\* The i-th stored invoice is opened in the form and submitted with no field
\* touched.
Resubmit(i) ==
    /\ handleSubmit(InvoiceFormState(<<invoices[i]>>), invoices[i].items, <<invoices[i]>>)
    /\ UNCHANGED <<issued, invoiceForm>>
ResubmitStored == \E i \in DOMAIN invoices : Resubmit(i)

NextResubmit ==
    \/ Load
    \/ Tick
    \/ ResubmitAddCustomer
    \/ CustomersUpdateCustomer
    \/ ResubmitNew
    \/ ResubmitSaveSettings
    \/ ResubmitStored

SpecResubmit == Init /\ [][NextResubmit]_vars

\* SpecBatch: addInvoice calls are steps of their own, and the state updates they
\* queue reach the callbacks only with the next render (Commit), which also runs
\* the save effects. Several calls can be made from one render. issued records
\* the counter each successful call read and the id it returned.
addInvoiceCall(invoiceData, items) ==
    LET customer == findCustomerById(invoiceData.customerId) IN
    /\ ~rendered.isLoading
    /\ IF customer = <<>>
       THEN /\ notification' = Notify("Customer not found for invoice.", "error", <<>>)
            /\ Called("addInvoice", NullRet)
            /\ UNCHANGED <<invoices, settings, issued>>
       ELSE LET new == newInvoice(invoiceData, items, customer[1])
            IN  /\ invoices' = Append(invoices, new)
                /\ settings' = incrementNextInvoiceNumber(settings)
                /\ notification' = Notify("Invoice created successfully", "success", new.id)
                /\ Called("addInvoice", Str(new.id))
                /\ issued' = Append(issued, [n |-> rendered.settings.nextInvoiceNumber,
                                             id |-> new.id])
    /\ UNCHANGED <<customers, isLoading, rendered, storage, now, year, invoiceForm>>

BatchAddCustomer ==
    \E customerData \in CustomerData(SpecNames) :
        Settled /\ RoomForCustomer /\ addCustomer(customerData)
BatchAddInvoice ==
    \E invoiceData \in InvoiceData(SpecRates, {}), items \in SpecItems :
        /\ Len(invoices) < MaxInvoices
        /\ JsLt(settings.nextInvoiceNumber, Whole(MaxCounter))
        /\ addInvoiceCall(invoiceData, items)
BatchDeleteInvoice == Settled /\ DeleteInvoice

NextBatch ==
    \/ MountEffects
    \/ Commit
    \/ BatchAddCustomer
    \/ BatchAddInvoice
    \/ BatchDeleteInvoice

SpecBatch == Init /\ [][NextBatch]_vars

---------------------------------------------------------------------------
(* Claims. *)

\* The customer collection holds a customer with this id.
KnownCustomer(customerId) == \E i \in DOMAIN customers : customers[i].id = customerId

\* The invoice collection holds an invoice with this id.
KnownInvoice(invoiceId) == \E i \in DOMAIN invoices : invoices[i].id = invoiceId

\* C1: addInvoice with a customerId that matches no customer returns null and
\* leaves the invoice collection and settings (nextInvoiceNumber included) as
\* they were.
C1_AddInvoiceUnknownCustomer ==
    [][\A invoiceData \in SpecInvoiceData, items \in SpecItems :
          (~KnownCustomer(invoiceData.customerId) /\ addInvoice(invoiceData, items))
              => /\ last'.ret = NullRet
                 /\ invoices' = invoices
                 /\ settings'.nextInvoiceNumber = settings.nextInvoiceNumber
                 /\ settings' = settings]_vars

\* C1 witness: addInvoice has just failed while the collection holds other customers.
C1_Witness ==
    /\ last = [op |-> "addInvoice", ret |-> NullRet]
    /\ notification.type = "error"
    /\ customers # <<>>

\* The handlers other than addInvoice and the settings-save, by the name they
\* leave in last.op.
OtherHandlers == {"addCustomer", "updateCustomer", "deleteCustomer",
                  "updateInvoice", "deleteInvoice"}

\* C2: a successful addInvoice adds exactly 1 to settings.nextInvoiceNumber and
\* appends exactly one invoice; a failed addInvoice, updateInvoice, deleteInvoice
\* and the customer operations leave settings unchanged.
C2_CounterAdvancesOnlyOnCreate ==
    [][/\ last'.op = "addInvoice" =>
          \A invoiceData \in SpecInvoiceData, items \in SpecItems :
            addInvoice(invoiceData, items) =>
                IF KnownCustomer(invoiceData.customerId)
                THEN /\ settings'.nextInvoiceNumber.t = "number"
                     /\ settings'.nextInvoiceNumber.v
                            = settings.nextInvoiceNumber.v + Whole(1).v
                     /\ [settings' EXCEPT !.nextInvoiceNumber = settings.nextInvoiceNumber]
                            = settings
                     /\ Len(invoices') = Len(invoices) + 1
                     /\ SubSeq(invoices', 1, Len(invoices)) = invoices
                ELSE settings' = settings
       /\ last'.op \in OtherHandlers => settings' = settings]_vars

\* C2 witness: the second invoice of the session has just been created.
C2_Witness ==
    /\ last.op = "addInvoice"
    /\ last.ret.t = "string"
    /\ settings.nextInvoiceNumber = Whole(3)

\* C4 (as claimed): settings.nextInvoiceNumber never decreases from one state to
\* the next, settings-save included.
C4_CounterNeverDecreases ==
    [][settings'.nextInvoiceNumber.v >= settings.nextInvoiceNumber.v]_vars

\* C4 (amended): settings.nextInvoiceNumber never decreases across invoice and
\* customer operations; a settings-save either is rejected and changes nothing or
\* stores the number of the form, a number >= 1 that may be lower than before.
C4_CounterDecreasesOnlyBySave ==
    [][/\ last'.op \in OtherHandlers \cup {"addInvoice"} =>
              settings'.nextInvoiceNumber.v >= settings.nextInvoiceNumber.v
       /\ last'.op = "saveSettings" =>
           \A currentSettings \in SpecSettings :
              handleSaveSettings(currentSettings) =>
                  \/ settings' = settings
                  \/ /\ settings' = currentSettings
                     /\ settings'.nextInvoiceNumber.t = "number"
                     /\ settings'.nextInvoiceNumber.v >= Whole(1).v]_vars

\* C4 witness: a settings-save has set the counter back to 1 although an invoice
\* has been issued.
C4_Witness ==
    /\ last.op = "saveSettings"
    /\ notification.type = "success"
    /\ settings.nextInvoiceNumber = Whole(1)
    /\ invoices # <<>>

\* C5: deleteCustomer(id) while an invoice has customerId = id is rejected, the
\* customer and invoice collections are unchanged and the customer is still
\* there; otherwise exactly the customers with that id are removed.
C5_DeleteCustomerGuard ==
    [][\A customerId \in IdSpace :
          deleteCustomer(customerId) =>
              IF \E i \in DOMAIN invoices : invoices[i].customerId = customerId
              THEN /\ customers' = customers
                   /\ invoices' = invoices
                   /\ notification'.type = "error"
                   /\ KnownCustomer(customerId) =>
                          \E j \in DOMAIN customers' : customers'[j].id = customerId
              ELSE /\ customers' = SelectSeq(customers, LAMBDA c : c.id # customerId)
                   /\ invoices' = invoices]_vars

\* C5 witness: deleteCustomer has just been refused for a customer with invoices.
C5_Witness ==
    /\ last.op = "deleteCustomer"
    /\ notification.type = "error"
    /\ \E i \in DOMAIN invoices : KnownCustomer(invoices[i].customerId)

\* C7: the invoice a successful addInvoice appends has status Draft, whatever
\* invoiceData carries (a status field included).
C7_NewInvoiceIsDraft ==
    [][\A invoiceData \in SpecInvoiceData, items \in SpecItems :
          (KnownCustomer(invoiceData.customerId) /\ addInvoice(invoiceData, items))
              => /\ Len(invoices') = Len(invoices) + 1
                 /\ invoices'[Len(invoices')].status = "Draft"]_vars

\* C7 witness: an invoice has just been created, next to one that is no longer a
\* draft.
C7_Witness ==
    /\ last.op = "addInvoice"
    /\ last.ret.t = "string"
    /\ Len(invoices) = 2
    /\ invoices[1].status = "Paid"
    /\ invoices[2].status = "Draft"

\* C8: updateInvoice with a customerId that matches no customer, or an id that
\* matches no invoice, fails and leaves invoices, customers and settings unchanged.
C8_UpdateInvoiceFailure ==
    [][last'.op = "updateInvoice" =>
       \A updatedInvoiceData \in SpecUpdateData, items \in SpecItems :
          (/\ updateInvoice(updatedInvoiceData, items)
           /\ \/ ~KnownCustomer(updatedInvoiceData.customerId)
              \/ ~KnownInvoice(updatedInvoiceData.id))
              => /\ invoices' = invoices
                 /\ customers' = customers
                 /\ settings' = settings
                 /\ notification'.type = "error"]_vars

\* C8 witness: updateInvoice has just failed on an id that is not in the collection.
C8_Witness ==
    /\ last.op = "updateInvoice"
    /\ notification.message = "Original invoice not found for update."
    /\ invoices # <<>>

\* C10: a successful updateInvoice carrying status t leaves every invoice with
\* that id in status t, from any status; no transition is refused.
C10_AnyStatusTransition ==
    [][last'.op = "updateInvoice" =>
       \A updatedInvoiceData \in SpecUpdateData, items \in SpecItems :
          (/\ updateInvoice(updatedInvoiceData, items)
           /\ KnownCustomer(updatedInvoiceData.customerId)
           /\ KnownInvoice(updatedInvoiceData.id))
              => /\ notification'.type = "success"
                 /\ Len(invoices') = Len(invoices)
                 /\ \A i \in DOMAIN invoices :
                        invoices[i].id = updatedInvoiceData.id =>
                            invoices'[i].status = updatedInvoiceData.status]_vars

\* C10 witness: updateInvoice has just succeeded and the collection holds an
\* Overdue and a Sent invoice, statuses only an update sets.
C10_Witness ==
    /\ last.op = "updateInvoice"
    /\ notification.type = "success"
    /\ \E i, j \in DOMAIN invoices :
           invoices[i].status = "Overdue" /\ invoices[j].status = "Sent"

C6_TotalsInvariant ==
    \A i \in DOMAIN invoices :
        /\ invoices[i].subTotal = Reduce(invoices[i].items, Num(0))
        /\ invoices[i].taxAmount = JsMul(invoices[i].subTotal, invoices[i].taxRate)
        /\ invoices[i].totalAmount = JsAdd(invoices[i].subTotal, invoices[i].taxAmount)

\* The first invoice of the collection with this id.
FirstWithId(invoiceId) ==
    invoices[CHOOSE k \in DOMAIN invoices :
                 /\ invoices[k].id = invoiceId
                 /\ \A m \in 1..(k - 1) : invoices[m].id # invoiceId]

C11_DeleteInvoiceFrame ==
    [][last'.op = "deleteInvoice" =>
       \A invoiceId \in InvoiceIds :
          deleteInvoice(invoiceId) =>
              /\ invoices' = SelectSeq(invoices, LAMBDA inv : inv.id # invoiceId)
              /\ ~KnownInvoice(invoiceId) => invoices' = invoices
              /\ customers' = customers
              /\ settings' = settings]_vars

\* C11 witness: of two invoices issued, one has just been deleted.
C11_Witness ==
    /\ last.op = "deleteInvoice"
    /\ notification.id # StaleInvoice.id
    /\ Len(invoices) = 1
    /\ settings.nextInvoiceNumber = Whole(3)

\* id is prefix, the four digits of year, '-', and counter in decimal, padded
\* with zeros to four digits and not cut when it has more.
WellFormedId(id, prefix, currentYear, counter) ==
    LET rest == SubSeq(id, Len(prefix) + 1, Len(id))
        number == SubSeq(rest, 6, Len(rest))
    IN  /\ Len(id) >= Len(prefix) + 9
        /\ SubSeq(id, 1, Len(prefix)) = prefix
        /\ IsDecimal(SubSeq(rest, 1, 4))
        /\ StringToNat(SubSeq(rest, 1, 4)) = currentYear
        /\ rest[5] = "-"
        /\ IsDecimal(number)
        /\ StringToNat(number) = counter
        /\ Len(number) > 4 => number[1] # "0"

\* C12: getNextInvoiceId is prefix, year, '-', then the counter in decimal, padded
\* with zeros to at least 4 digits and never truncated; with prefix 'INV-' and
\* year 2024, counter 1 gives INV-2024-0001, 42 gives INV-2024-0042 and 10000
\* gives INV-2024-10000.
C12_InvoiceIdFormat ==
    /\ WellFormedId(getNextInvoiceId, settings.invoicePrefix, year,
                    settings.nextInvoiceNumber.v \div Scale)
    /\ (settings.invoicePrefix = <<"I", "N", "V", "-">> /\ year = 2024) =>
           /\ settings.nextInvoiceNumber = Whole(1) =>
                  getNextInvoiceId
                      = <<"I", "N", "V", "-", "2", "0", "2", "4", "-", "0", "0", "0", "1">>
           /\ settings.nextInvoiceNumber = Whole(42) =>
                  getNextInvoiceId
                      = <<"I", "N", "V", "-", "2", "0", "2", "4", "-", "0", "0", "4", "2">>
           /\ settings.nextInvoiceNumber = Whole(10000) =>
                  getNextInvoiceId
                      = <<"I", "N", "V", "-", "2", "0", "2", "4", "-", "1", "0", "0", "0", "0">>

\* C12 witness: addInvoice has just returned the id of counter 10000.
C12_Witness ==
    /\ last.op = "addInvoice"
    /\ last.ret = Str(<<"I", "N", "V", "-", "2", "0", "2", "4", "-", "1", "0", "0", "0", "0">>)
    /\ settings.nextInvoiceNumber = Whole(10001)

\* C13: from default settings and empty collections, addCustomer {Acme, 555-1111}
\* and then addInvoice for that customer with one item (quantity 3, unit price
\* 10) and tax rate 0.1 stores an invoice with subTotal 30, taxAmount 3,
\* totalAmount 33, status Draft and id INV-<year>-0001, and leaves
\* nextInvoiceNumber = 2.
C13_FirstInvoice ==
    [][last'.op = "addInvoice" =>
       \A invoiceData \in SpecInvoiceData :
          (/\ last.op = "addCustomer"
           /\ Len(customers) = 1
           /\ customers[1].name = "Acme" /\ customers[1].phone = "555-1111"
           /\ invoices = <<>>
           /\ settings = DEFAULT_SETTINGS
           /\ invoiceData.customerId = customers[1].id
           /\ invoiceData.taxRate = Tenths(1)
           /\ Widget.quantity = Whole(3) /\ Widget.unitPrice = Whole(10)
           /\ addInvoice(invoiceData, <<Widget>>))
              => /\ Len(invoices') = 1
                 /\ invoices'[1].subTotal = Whole(30)
                 /\ invoices'[1].taxAmount = Whole(3)
                 /\ invoices'[1].totalAmount = Whole(33)
                 /\ invoices'[1].status = "Draft"
                 /\ invoices'[1].id = <<"I", "N", "V", "-">> \o NatToString(year)
                                          \o <<"-", "0", "0", "0", "1">>
                 /\ WellFormedId(invoices'[1].id, <<"I", "N", "V", "-">>, year, 1)
                 /\ last'.ret = Str(invoices'[1].id)
                 /\ settings'.nextInvoiceNumber = Whole(2)]_vars

\* C13 witness: the scenario has just run.
C13_Witness ==
    /\ last.op = "addInvoice"
    /\ Len(customers) = 1
    /\ customers[1].name = "Acme"
    /\ Len(invoices) = 1
    /\ invoices[1].items = <<Widget>>
    /\ invoices[1].totalAmount = Whole(33)
    /\ settings.nextInvoiceNumber = Whole(2)

\* t holds the elements of s in some order.
IsPermutation(s, t) ==
    /\ Len(s) = Len(t)
    /\ s # <<>> => \E f \in Permutations(DOMAIN s) : \A k \in DOMAIN s : t[k] = s[f[k]]

\* C14 (as claimed): calculateInvoiceTotals does not depend on the order of the
\* items: invoices computed from the same items in any order at the same tax
\* rate have the same subTotal, taxAmount and totalAmount, and the empty list
\* has subTotal 0.
C14_OrderIndependent ==
    /\ \A i, j \in DOMAIN invoices :
           (/\ IsPermutation(invoices[i].items, invoices[j].items)
            /\ invoices[i].taxRate = invoices[j].taxRate)
               => /\ invoices[i].subTotal = invoices[j].subTotal
                  /\ invoices[i].taxAmount = invoices[j].taxAmount
                  /\ invoices[i].totalAmount = invoices[j].totalAmount
    /\ \A i \in DOMAIN invoices :
           invoices[i].items = <<>> => invoices[i].subTotal = Num(0)

\* C15: after handleItemChange on a line item, the item's total is its quantity
\* times its unit price; a quantity or price text that does not parse as a
\* number is stored as 0, not rejected.
C15_ItemTotalRecomputed ==
    [][last'.op = "handleItemChange" =>
       \A index \in DOMAIN invoiceForm.items, field \in {"quantity", "unitPrice"},
          value \in NumberTexts :
          (invoiceForm'.items = handleItemChange(invoiceForm.items, index, field, value))
              => LET item == invoiceForm'.items[index]
                 IN  /\ item.quantity.t = "number" /\ item.unitPrice.t = "number"
                     /\ item.total.t = "number"
                     /\ item.total.v * Scale = item.quantity.v * item.unitPrice.v
                     /\ IsNaN(parseFloat(value)) => item[field] = Whole(0) /\ item.total = Whole(0)
                     /\ ~IsNaN(parseFloat(value)) => item[field] = parseFloat(value)
                     /\ Len(invoiceForm'.items) = Len(invoiceForm.items)]_vars

\* C15 witness: the quantity field of an item with a price was cleared.
C15_Witness ==
    /\ last.op = "handleItemChange"
    /\ invoiceForm.open
    /\ \E index \in DOMAIN invoiceForm.items :
           /\ invoiceForm.items[index].quantity = Whole(0)
           /\ invoiceForm.items[index].unitPrice = Whole(3)
           /\ invoiceForm.items[index].total = Whole(0)

\* C16 (as claimed): updateCustomer with an id no customer has changes neither
\* customers nor invoices nor settings; with a matching id it replaces exactly
\* that record, with updatedAt refreshed, and leaves every other record alone.
C16_UpdateCustomerExact ==
    [][last'.op = "updateCustomer" =>
       \A updatedCustomer \in CustomerUpdates(CustomersNames) :
          updateCustomer(updatedCustomer) =>
              /\ invoices' = invoices
              /\ settings' = settings
              /\ IF ~KnownCustomer(updatedCustomer.id)
                 THEN customers' = customers
                 ELSE /\ Len(customers') = Len(customers)
                      /\ \E k \in DOMAIN customers :
                             /\ customers[k].id = updatedCustomer.id
                             /\ customers'[k] = [updatedAt |-> now] @@ updatedCustomer
                             /\ \A m \in DOMAIN customers \ {k} :
                                    customers'[m] = customers[m]]_vars

\* C17 (as claimed): the ids of the customers in the collection are pairwise
\* distinct, and no operation, updateCustomer included, changes the id of an
\* existing customer.
C17_CustomerIdsUnique ==
    [][/\ \A i, j \in DOMAIN customers' : i # j => customers'[i].id # customers'[j].id
       /\ last'.op = "updateCustomer" =>
              /\ Len(customers') = Len(customers)
              /\ \A k \in DOMAIN customers : customers'[k].id = customers[k].id]_vars

\* C18 (as claimed): every invoice that reaches the collection through the
\* invoice form has a taxRate that is a number between 0 and 1, and a submission
\* whose tax rate is out of range or not a number is rejected before addInvoice
\* or updateInvoice is called: a step is either a rejected submission, which
\* changes neither invoices nor settings, or not the submission of such a form.
C18_TaxRateValidated ==
    [][last'.op \in {"handleSubmit", "addInvoice", "updateInvoice"} =>
       /\ \A i \in DOMAIN invoices' :
              /\ invoices'[i].taxRate.t = "number"
              /\ invoices'[i].taxRate.v >= 0
              /\ invoices'[i].taxRate.v <= Whole(1).v
       /\ \/ /\ last'.op = "handleSubmit"
             /\ invoices' = invoices
             /\ settings' = settings
          \/ \A invoiceToEdit \in {<<>>} \cup {<<invoices[i]>> : i \in DOMAIN invoices} :
                 \A form \in FormStates(invoiceToEdit), items \in FormItems :
                     (\/ form.taxRate.t # "number"
                      \/ form.taxRate.v < 0
                      \/ form.taxRate.v > Whole(1).v)
                         => ~handleSubmit(form, items, invoiceToEdit)]_vars

\* An item as the claim requires it.
ValidItem(item) ==
    /\ item.description \notin {"", " "}
    /\ item.quantity.t = "number" /\ item.quantity.v > 0
    /\ item.unitPrice.t = "number" /\ item.unitPrice.v >= 0

\* C19: every item of every invoice stored through the invoice form has
\* quantity > 0, unit price >= 0 and a non-blank description, and the due date is
\* not before the invoice date; a submission violating one of these calls
\* neither addInvoice nor updateInvoice: a step is either a rejected submission,
\* which changes neither invoices nor settings, or not the submission of such a
\* form.
C19_ItemsAndDatesValidated ==
    [][last'.op \in {"handleSubmit", "addInvoice", "updateInvoice"} =>
       /\ \A i \in DOMAIN invoices' :
              /\ \A k \in DOMAIN invoices'[i].items : ValidItem(invoices'[i].items[k])
              /\ invoices'[i].dueDate >= invoices'[i].invoiceDate
       /\ \/ /\ last'.op = "handleSubmit"
             /\ notification'.type = "error"
             /\ invoices' = invoices
             /\ settings' = settings
          \/ \A invoiceToEdit \in {<<>>} \cup {<<invoices[i]>> : i \in DOMAIN invoices} :
                 \A form \in FormStates(invoiceToEdit), items \in FormItems :
                     (\/ \E k \in DOMAIN items : ~ValidItem(items[k])
                      \/ form.dueDate < form.invoiceDate)
                         => ~handleSubmit(form, items, invoiceToEdit)]_vars

\* C19 witness: with an invoice stored, a submission has just been rejected.
C19_Witness ==
    /\ last.op = "handleSubmit"
    /\ notification.message = "Please correct the errors in the form."
    /\ invoices # <<>>
    /\ \A i \in DOMAIN invoices : invoices[i].taxRate = Tenths(1)

\* The first customer of the collection with this id.
FirstCustomerWithId(customerId) ==
    customers[CHOOSE k \in DOMAIN customers :
                  /\ customers[k].id = customerId
                  /\ \A m \in 1..(k - 1) : customers[m].id # customerId]

\* C20: customerName is a copy taken when the invoice is written: addInvoice
\* stores the customer's name of that moment, updateCustomer (a rename) leaves
\* every invoice as it is, and a successful updateInvoice stores the customer's
\* current name.
C20_CustomerNameSnapshot ==
    [][/\ last'.op \in {"updateCustomer", "deleteCustomer", "addCustomer"} =>
              invoices' = invoices
       /\ last'.op = "addInvoice" =>
              \A invoiceData \in InvoiceData(SpecRates, {}), items \in SpecItems :
                  (/\ addInvoice(invoiceData, items)
                   /\ KnownCustomer(invoiceData.customerId))
                      => invoices'[Len(invoices')].customerName
                             = FirstCustomerWithId(invoiceData.customerId).name
       /\ last'.op = "updateInvoice" =>
              \A updatedInvoiceData \in CustomersUpdateData, items \in SpecItems :
                  (/\ updateInvoice(updatedInvoiceData, items)
                   /\ KnownCustomer(updatedInvoiceData.customerId)
                   /\ KnownInvoice(updatedInvoiceData.id))
                      => \A i \in DOMAIN invoices :
                             IF invoices[i].id = updatedInvoiceData.id
                             THEN invoices'[i].customerName
                                      = FirstCustomerWithId(updatedInvoiceData.customerId).name
                             ELSE invoices'[i].customerName = invoices[i].customerName]_vars

\* C20 witness: the only customer has just been renamed to Bolt and an invoice
\* still says Acme.
C20_Witness ==
    /\ last.op = "updateCustomer"
    /\ Len(customers) = 1
    /\ customers[1].name = "Bolt"
    /\ \E i \in DOMAIN invoices :
           /\ invoices[i].customerId = customers[1].id
           /\ invoices[i].customerName = "Acme"

\* A non-blank prefix, a counter that is a whole number >= 1 and a default tax
\* rate in [0,1].
ValidSettings(s) ==
    /\ Trim(s.invoicePrefix) # <<>>
    /\ s.nextInvoiceNumber.t = "number"
    /\ s.nextInvoiceNumber.v % Scale = 0
    /\ s.nextInvoiceNumber.v >= Scale
    /\ s.defaultTaxRate.t = "number"
    /\ s.defaultTaxRate.v >= 0
    /\ s.defaultTaxRate.v <= Scale

\* C21: through settings-saves and creations of invoices the settings keep a
\* non-blank invoicePrefix, a nextInvoiceNumber that is an integer >= 1 and a
\* defaultTaxRate in [0,1]; a settings-save of a form that violates one of these
\* is rejected with an error notification and leaves the settings unchanged.
C21_SettingsStayValid ==
    /\ []ValidSettings(settings)
    /\ [][last'.op = "saveSettings" =>
            \/ settings' = settings /\ notification'.type = "error"
            \/ \A currentSettings \in EditedSettings :
                   ~ValidSettings(currentSettings) => ~handleSaveSettings(currentSettings)]_vars

\* C21 witness: after an invoice was created, a form with an invalid field was
\* rejected; the counter is the one the creation left.
C21_Witness ==
    /\ last.op = "saveSettings"
    /\ notification.type = "error"
    /\ Len(invoices) = 1
    /\ settings.nextInvoiceNumber = Whole(3)
    /\ settings.defaultTaxRate = Tenths(5)

\* A step of the program, not of what surrounds it.
ProgramStep == ~(StorageFails \/ StorageRecovers \/ StorageDamaged)

\* A read of the key throws: localStorage.getItem does, or JSON.parse of the item.
ReadThrows(key) == storage.failing \/ storage[key] = Unparsable

\* C22: a write that fails (localStorage.setItem throws) does not reach the caller
\* and does not undo or block the change in memory: with the storage failing,
\* addCustomer still appends the customer, addInvoice still appends the invoice
\* and advances the counter, a valid settings-save still replaces the settings,
\* each with its success notification, and nothing is written; a read that fails
\* gives the default (the empty list, DEFAULT_SETTINGS) and the load completes.
C22_PersistenceBestEffort ==
    [][ProgramStep =>
        /\ last'.op = "load" =>
              /\ ~isLoading'
              /\ ReadThrows("customers") => customers' = <<>>
              /\ ReadThrows("invoices") => invoices' = <<>>
              /\ ReadThrows("settings") => settings' = DEFAULT_SETTINGS
        /\ (storage.failing /\ last'.op \in OtherHandlers \cup {"addInvoice", "saveSettings"})
              => storage' = storage
        /\ (storage.failing /\ last'.op = "addCustomer") =>
              /\ Len(customers') = Len(customers) + 1
              /\ notification'.type = "success"
        /\ (storage.failing /\ last'.op = "addInvoice") =>
              \A invoiceData \in InvoiceData(SpecRates, {}), items \in SpecItems :
                  (addInvoice(invoiceData, items) /\ KnownCustomer(invoiceData.customerId)) =>
                      /\ Len(invoices') = Len(invoices) + 1
                      /\ settings'.nextInvoiceNumber
                             = JsAdd(settings.nextInvoiceNumber, Whole(1))
                      /\ notification'.type = "success"
                      /\ last'.ret = Str(invoices'[Len(invoices')].id)
        /\ (storage.failing /\ last'.op = "saveSettings") =>
              \A currentSettings \in StorageSettings :
                  (handleSaveSettings(currentSettings) /\ validateSettings(currentSettings)) =>
                      settings' = currentSettings /\ notification'.type = "success"]_vars

\* C22 witness: an invoice was created while the storage was failing, after a load
\* whose read of the settings failed; nothing of it is stored.
C22_Witness ==
    /\ last.op = "addInvoice"
    /\ storage.failing
    /\ Len(invoices) = 1
    /\ settings.nextInvoiceNumber = Whole(2)
    /\ storage.settings = Unparsable
    /\ storage.invoices = <<>>

\* C25: once the load has completed, a step of the program that changes the
\* customers, the invoices or the settings in memory, or that completes the load,
\* leaves under the key of what changed, unless the write fails, the
\* serialization of the value now in memory.
C25_PersistedAfterChange ==
    [][(ProgramStep /\ ~isLoading' /\ ~storage.failing) =>
        /\ (customers' # customers \/ isLoading)
              => storage'.customers = <<JsonCustomers(customers')>>
        /\ (invoices' # invoices \/ isLoading)
              => storage'.invoices = <<JsonInvoices(invoices')>>
        /\ (settings' # settings \/ isLoading)
              => storage'.settings = <<JsonObject(settings')>>]_vars

\* C25 witness: an invoice was created and written with the counter it advanced,
\* while the stored customers are still those of before a write that failed.
C25_Witness ==
    /\ last.op = "addInvoice"
    /\ Len(invoices) = 1
    /\ ~storage.failing
    /\ storage.invoices = <<JsonInvoices(invoices)>>
    /\ storage.settings = <<JsonObject(settings)>>
    /\ storage.customers = <<JsonCustomers(<<>>)>>

\* C23: the status of a stored invoice changes only in a successful updateInvoice
\* called with the id of that invoice: the customer operations, a settings-save,
\* the creation of an invoice and the passage of time, past the due date
\* included, keep every stored invoice at its place with its status, and the
\* invoices a deleteInvoice leaves are stored invoices as they were.
C23_StatusOnlyByUpdate ==
    [][/\ last'.op = "deleteInvoice" => Range(invoices') \subseteq Range(invoices)
       /\ last'.op # "deleteInvoice" =>
            /\ Len(invoices') >= Len(invoices)
            /\ \A i \in DOMAIN invoices :
                  invoices'[i].status # invoices[i].status =>
                      /\ last'.op = "updateInvoice"
                      /\ notification'.type = "success"
                      /\ notification'.id = invoices[i].id]_vars

\* C23 witness: the due date of an invoice marked Sent has passed and another
\* invoice was deleted; the invoice is still Sent.
C23_Witness ==
    /\ last.op = "deleteInvoice"
    /\ Len(invoices) = 1
    /\ invoices[1].status = "Sent"
    /\ invoices[1].dueDate < now
    /\ settings.nextInvoiceNumber = Whole(3)

\* C24: the item list of a mounted invoice form is never empty, and every stored
\* invoice has at least one item.
C24_ItemListNeverEmpty ==
    /\ invoiceForm.open => Len(invoiceForm.items) >= 1
    /\ \A i \in DOMAIN invoices : Len(invoices[i].items) >= 1

\* C24 witness: a stored invoice was opened in the form, an item was added and
\* removed again, and the invoice was updated with the one item that was left.
C24_Witness ==
    /\ last.op = "updateInvoice"
    /\ notification.type = "success"
    /\ Len(invoices) = 1
    /\ Len(invoices[1].items) = 1
    /\ invoices[1].items[1].description = "Widget"
    /\ invoices[1].items[1].quantity = Whole(3)

\* C26: after any sequence of addCustomer, updateCustomer, deleteCustomer,
\* addInvoice, updateInvoice and deleteInvoice, every invoice of the collection
\* has the customerId of some customer of the customer collection.
C26_ReferentialIntegrity ==
    \A i \in DOMAIN invoices : KnownCustomer(invoices[i].customerId)

\* C26 witness: a customer without invoices was deleted while the invoices of
\* another customer are stored.
C26_Witness ==
    /\ last.op = "deleteCustomer"
    /\ notification.type = "success"
    /\ Len(customers) = 1
    /\ Len(invoices) = 2

\* C27: no save happens under a render that still has isLoading, so nothing is
\* written before the loaded values are in memory, and the first write of each
\* key, made by the render that shows the loaded values, writes the value that
\* was loaded (unless the write fails).
C27_NoSaveBeforeLoad ==
    [][(~StorageFails /\ ~StorageRecovers) =>
        /\ rendered'.isLoading => storage' = storage
        /\ (rendered.isLoading /\ ~rendered'.isLoading /\ ~storage.failing) =>
              /\ storage'.customers = <<JsonCustomers(customers)>>
              /\ storage'.invoices = <<JsonInvoices(invoices)>>
              /\ storage'.settings = <<JsonObject(settings)>>]_vars

\* C27 witness: the page was loaded again over the documents of an earlier
\* session and the render after the load has written them back as they were.
C27_Witness ==
    /\ last.op = "load"
    /\ ~rendered.isLoading
    /\ Len(customers) = 1
    /\ Len(invoices) = 1
    /\ settings.nextInvoiceNumber = Whole(2)
    /\ storage.customers = <<JsonCustomers(customers)>>
    /\ storage.invoices = <<JsonInvoices(invoices)>>
    /\ storage.settings = <<JsonObject(settings)>>

\* C28 (as claimed): opening a stored invoice in the edit form and submitting it
\* with no field changed leaves the invoice as it was but for updatedAt and
\* customerName, also when its taxRate is 0 and settings.defaultTaxRate is not.
C28_ResubmitIsIdentity ==
    [][last'.op = "updateInvoice" =>
        \A i \in DOMAIN invoices :
            Resubmit(i) =>
                /\ Len(invoices') = Len(invoices)
                /\ \A f \in DOMAIN invoices[i] \ {"updatedAt", "customerName"} :
                      invoices'[i][f] = invoices[i][f]]_vars

\* C29 (as claimed): also after the prefix or the counter was edited by a
\* settings-save, an updateInvoice changes at most one element of the invoice
\* collection and keeps its length and order, and a deleteInvoice removes at most
\* one element and leaves the others as they were.
C29_AtMostOneInvoiceTouched ==
    [][/\ last'.op = "updateInvoice" =>
            /\ Len(invoices') = Len(invoices)
            /\ Cardinality({i \in DOMAIN invoices : invoices'[i] # invoices[i]}) <= 1
       /\ last'.op = "deleteInvoice" =>
            \/ invoices' = invoices
            \/ \E i \in DOMAIN invoices :
                  invoices' = SubSeq(invoices, 1, i - 1)
                                 \o SubSeq(invoices, i + 1, Len(invoices))]_vars

\* C30 (as claimed): also when several addInvoice calls are made before the next
\* render, no two successful creations read the same counter value or return the
\* same id, each id is formatted from the counter value its call increments, and
\* the counter has advanced by the number of ids issued.
C30_CounterReadOncePerCreation ==
    /\ \A i, j \in DOMAIN issued :
          i # j => issued[i].n # issued[j].n /\ issued[i].id # issued[j].id
    /\ \A i \in DOMAIN issued : issued[i].n = Whole(i)
    /\ settings.nextInvoiceNumber = Whole(1 + Len(issued))

====
